---- MODULE Spec2Model ----
(***************************************************************************)
(* Particle network animation (src/network-animation.vue).                 *)
(*                                                                         *)
(* The module state of the component (canvas size, the particles array,   *)
(* the interactionParticle reference, the timer and frame handles, the     *)
(* closure variables of bindUiActions) and the browser's tables of pending *)
(* timers and frame requests are the variables; every event handler, timer *)
(* callback and frame callback is one action that runs to completion.      *)
(*                                                                         *)
(* Numbers.  Positions and velocities are JavaScript doubles; the model    *)
(* keeps them as integers in units of 1/8 pixel, and every sampled value   *)
(* is a small dyadic rational, for which double arithmetic is exact.       *)
(* Opacity is the one value whose double rounding matters (0.01 is not a   *)
(* dyadic rational): it is kept as the exact double, written as an integer *)
(* count of 2^-59 in two limbs of 30 bits, and particle.opacity += 0.01 is *)
(* IEEE-754 round-to-nearest-even addition on it.                          *)
(***************************************************************************)
EXTENDS Integers, Sequences, FiniteSets, TLC

\* ----------------------------------------------------------------- bounds
\* Particles created in one run (createParticle calls that reach the heap).
MaxParticles == 5
\* Frame callbacks in one run of the whole system.
MaxFrames == 2
\* Resize re-initializations in one run.
MaxResizes == 1
\* Pointer-down interval timers alive at once.
MaxMouseTimers == 1
\* Ticks of one pointer-down timer while the button is held.
MaxTicks == 2
\* Pending touch-start timeouts.
MaxTaps == 1
\* The time counted since a burst of resize events began.
MaxBurstTime == 1000
\* Pointer-down intervals alive at once where presses follow one another.
MaxHeldTimers == 2
\* Frame callbacks in the rendering specification.
MaxLineFrames == 9
\* Frame callbacks in the fade-in specification.
MaxFadeFrames == 101

\* ----------------------------------------------------- program constants
\* options.density
Density == 15000
\* options.netLineDistance
NetLineDistance == 200
\* options.velocity = 0.5, in halves
VelocityHalves == 1
\* options.particleColors
ParticleColors == <<"#aaa">>
\* let spawnQuantity = 3
SpawnQuantity == 3
\* the margin of the boundary check, canvas.width + 100
Margin == 100
\* the delay of the debounced resize listener
DebounceDelay == 500
\* the period of the throttled-spawn interval, the unit in which time passes
SpawnPeriod == 250
\* a new canvas element is 300 x 150 until it is sized
DefaultCanvasWidth == 300
DefaultCanvasHeight == 150
\* positions are kept in 1/PosUnit pixel
PosUnit == 8
\* a Math.random() sample is RandDen-ths: k / RandDen, 0 <= k < RandDen
RandDen == 4

\* ------------------------------------------------------------ environment
\* container.offsetWidth x container.offsetHeight the layout can report
ContainerSizes == {<<0, 0>>, <<200, 150>>}
\* (offsetX, offsetY) of a mouse event, (clientX, clientY) of a touch
EventPoints == {<<0, 40>>, <<40, 0>>}
\* (clientX, clientY) of a touch on a canvas that lies to the right in the
\* viewport
FarPoints == {<<450, 40>>}
\* touches at, just beyond and far beyond NetLineDistance from HoldPoints,
\* and one whose particles drift to that distance (160 across, 120 down)
LinePoints == {<<200, 40>>, <<201, 40>>, <<250, 250>>, <<162, 159>>}
\* where the pointer rests while the button is held
HoldPoints == {<<0, 40>>}
\* The six Math.random() values one createParticle call draws, in call
\* order: pos.x, pos.y, radius, colour, velocity.x, velocity.y.
SampleLow == [px |-> 0, py |-> 0, rr |-> 0, rc |-> 0, vx |-> 0, vy |-> 3]
SampleHigh == [px |-> 3, py |-> 2, rr |-> 3, rc |-> 3, vx |-> 3, vy |-> 0]
\* The streams Math.random() can produce in one run: the k-th createParticle
\* call of the run draws element k of the stream, which repeats.
RandomStreams == {<<SampleLow, SampleHigh>>, <<SampleHigh, SampleHigh, SampleLow>>}
\* options.velocity as shipped, and a still network
Speeds == {0, VelocityHalves}
\* what init(elementId) can meet
InitOutcomes == {"running", "noElement", "noContext"}

\* --------------------------------------------------------- double opacity
Two30 == 1073741824

\* floor(log2(n)) of a first limb n
Log2Floor(n) == CHOOSE k \in 0..30 : 2^k <= n /\ n < 2^(k + 1)

\* the double nearest 0.01: 5764607523034235 * 2^-59
OpacityStep == <<5368709, 128849019>>
\* the doubles 0 and 1
OpacityZero == <<0, 0>>
OpacityOne == <<536870912, 0>>

\* a < b on doubles
FloatLess(a, b) == a[1] < b[1] \/ (a[1] = b[1] /\ a[2] < b[2])

\* a + b on non-negative doubles below 2: the exact sum, rounded to 53
\* significant bits, ties to even
FloatAdd(a, b) ==
    LET lo0 == a[2] + b[2]
        lo1 == lo0 % Two30
        hi1 == a[1] + b[1] + (lo0 \div Two30)
        d == IF hi1 >= 2^23 THEN Log2Floor(hi1) - 22 ELSE 0
        ulp == 2^d
        r == lo1 % ulp
        odd == (lo1 \div ulp) % 2 = 1
        up == d > 0 /\ (2 * r > ulp \/ (2 * r = ulp /\ odd))
        lo2 == lo1 - r + (IF up THEN ulp ELSE 0)
    IN <<hi1 + (lo2 \div Two30), lo2 % Two30>>

\* ------------------------------------------------------------------ state
VARIABLES
    initState,            \* which branch init(elementId) took
    randomStream,         \* the values Math.random() returns in this run
    velocity,             \* options.velocity, in halves
    containerW,           \* container.offsetWidth
    containerH,           \* container.offsetHeight
    canvasW,              \* canvas.width
    canvasH,              \* canvas.height
    heap,                 \* the Particle objects alive, by identity
    nextId,               \* identity of the next object created
    particles,            \* the particles array: object identities in order
    interactionParticle,  \* the reference, NoParticle when undefined
    animationFrame,       \* the handle of the last requestAnimationFrame
    frameRequests,        \* the browser's pending frame requests
    createIntervalId,     \* the handle of the last throttled-spawn interval
    createTimers,         \* the throttled-spawn intervals the browser holds
    mouseIsDown,          \* closure variable of bindUiActions
    touchIsMoving,        \* closure variable of bindUiActions
    mouseTimers,          \* the pointer-down intervals the browser holds
    tapTimers,            \* the touch-start timeouts the browser holds, each
                          \* with its event's point and whether a touch-move
                          \* was handled since it was set
    debounceTimers,       \* the timeouts of the resize listener the browser
                          \* holds: the time left, whether the closure's
                          \* timer refers to it, the time since its burst
                          \* of events began
    sinceResize,          \* the time since the last resize event
    frames,               \* frame callbacks run so far
    drawn,                \* the connecting lines the last frame callback
                          \* stroked, in order
    bounced,              \* the velocity components the last frame callback
                          \* reversed: <<object, axis>>
    generation,           \* resize re-initializations run so far
    cleared,              \* identities a resize removed from the array
    lastOp                \* the handler or callback that ran last

\* groups of variables; config is what a run never changes
config == <<initState, randomStream, velocity>>
container == <<containerW, containerH>>
canvas == <<canvasW, canvasH>>
objects == <<heap, nextId, particles>>
loop == <<animationFrame, frameRequests, frames, drawn, bounced>>
spawner == <<createIntervalId, createTimers>>
pointer == <<mouseIsDown, mouseTimers>>
touch == <<touchIsMoving, tapTimers>>
resizing == <<debounceTimers, sinceResize, generation, cleared>>

vars == <<config, container, canvas, objects, interactionParticle, loop,
          spawner, pointer, touch, resizing, lastOp>>

\* interactionParticle === undefined
NoParticle == 0
\* an omitted argument
Absent == <<>>
Given(v) == <<v>>

Range(s) == {s[i] : i \in 1..Len(s)}

\* the record of the handler that ran last: its name and, for an event, the
\* coordinates it carried; for the resize body, the number of throttled-spawn
\* intervals pending when it began and how long its burst of events lasted; for
\* a tap timeout, its position in the browser's list
Op(name) == [op |-> name, args |-> <<>>]
OpAt(name, args) == [op |-> name, args |-> args]

\* the objects still referenced: by the array or by interactionParticle
Reachable(h, ps, ip) ==
    [id \in (Range(ps) \cup ({ip} \ {NoParticle})) \cap DOMAIN h |-> h[id]]

\* ------------------------------------------------------ particle functions
\* what Math.random() returns to the createParticle call that makes object id
Draw(id) == randomStream[((id - 1) % Len(randomStream)) + 1]

\* overwriteX || pos.x takes pos.x for every falsy overwriteX
Truthy(arg) == arg # Absent /\ arg[1] # 0

generateRandomPosition(rnd) ==
    [x |-> (rnd.px * canvasW * PosUnit) \div RandDen,
     y |-> (rnd.py * canvasH * PosUnit) \div RandDen]

\* min and max in halves; the result in 1/PosUnit.  Math.round(v) is
\* floor(v + 0.5).
getLimitedRandom(minHalves, maxHalves, roundToInteger, r) ==
    LET number == r * (maxHalves - minHalves) + minHalves * RandDen
    IN IF roundToInteger
       THEN ((number + RandDen) \div (2 * RandDen)) * PosUnit
       ELSE (number * PosUnit) \div (2 * RandDen)

createParticle(overwriteX, overwriteY, rnd) ==
    LET pos == generateRandomPosition(rnd)
    IN [x |-> IF Truthy(overwriteX) THEN overwriteX[1] ELSE pos.x,
        y |-> IF Truthy(overwriteY) THEN overwriteY[1] ELSE pos.y,
        opacity |-> OpacityZero,
        radius |-> getLimitedRandom(3, 5, TRUE, rnd.rr),
        particleColor |->
            ParticleColors[((rnd.rc * Len(ParticleColors)) \div RandDen) + 1],
        vx |-> ((2 * rnd.vx - RandDen) * velocity * PosUnit)
                   \div (4 * RandDen),
        vy |-> ((2 * rnd.vy - RandDen) * velocity * PosUnit)
                   \div (4 * RandDen)]

\* the tests of the boundary check
OutsideX(p) == p.x > (canvasW + Margin) * PosUnit \/ p.x < -Margin * PosUnit
OutsideY(p) == p.y > (canvasH + Margin) * PosUnit \/ p.y < -Margin * PosUnit

\* an update that halves a velocity component it reverses
updateParticleDamped(p) ==
    LET opacity == IF FloatLess(p.opacity, OpacityOne)
                   THEN FloatAdd(p.opacity, OpacityStep)
                   ELSE OpacityOne
        vx == IF OutsideX(p) THEN -(p.vx \div 2) ELSE p.vx
        vy == IF OutsideY(p) THEN -(p.vy \div 2) ELSE p.vy
    IN [p EXCEPT !.opacity = opacity, !.vx = vx, !.vy = vy,
                 !.x = p.x + vx, !.y = p.y + vy]

updateParticle(p) ==
    LET opacity == IF FloatLess(p.opacity, OpacityOne)
                   THEN FloatAdd(p.opacity, OpacityStep)
                   ELSE OpacityOne
        vx == IF OutsideX(p) THEN -p.vx ELSE p.vx
        vy == IF OutsideY(p) THEN -p.vy ELSE p.vy
    IN [p EXCEPT !.opacity = opacity, !.vx = vx, !.vy = vy,
                 !.x = p.x + vx, !.y = p.y + vy]

Abs(n) == IF n < 0 THEN -n ELSE n
Min(a, b) == IF a < b THEN a ELSE b

\* Math.pow(p1.x - p2.x, 2) + Math.pow(p1.y - p2.y, 2), in 1/PosUnit^2
SquaredDistance(p1, p2) ==
    (p1.x - p2.x) * (p1.x - p2.x) + (p1.y - p2.y) * (p1.y - p2.y)

\* a renderer that skips a pair at the threshold too
TooFarOrAt(d2) ==
    d2 >= (NetLineDistance * PosUnit) * (NetLineDistance * PosUnit)

\* Math.sqrt(d2) > options.netLineDistance: the square root of these
\* values is exact or off the threshold by far more than a rounding
TooFar(d2) ==
    d2 > (NetLineDistance * PosUnit) * (NetLineDistance * PosUnit)

\* whether globalAlpha, ((netLineDistance - distance) / netLineDistance) *
\* p1.opacity * p2.opacity, is 0
AlphaIsZero(d2, p1, p2) ==
    \/ d2 = (NetLineDistance * PosUnit) * (NetLineDistance * PosUnit)
    \/ p1.opacity = OpacityZero
    \/ p2.opacity = OpacityZero

\* the two loops that draw the connections: i upwards from the first
\* element, j downwards from the last to i + 1; acc is what was stroked
RECURSIVE DrawConnections(_, _, _, _, _)
DrawConnections(h, ps, i, j, acc) ==
    IF i > Len(ps) THEN acc
    ELSE IF j <= i THEN DrawConnections(h, ps, i + 1, Len(ps), acc)
    ELSE LET p1 == h[ps[i]]
             p2 == h[ps[j]]
             d2 == SquaredDistance(p1, p2)
         IN IF Min(Abs(p1.x - p2.x), Abs(p1.y - p2.y))
                   > NetLineDistance * PosUnit
            THEN DrawConnections(h, ps, i, j - 1, acc)
            ELSE IF TooFar(d2)
            THEN DrawConnections(h, ps, i, j - 1, acc)
            ELSE DrawConnections(h, ps, i, j - 1,
                     Append(acc, [p1 |-> ps[i], p2 |-> ps[j], dist2 |-> d2,
                                  alphaZero |-> AlphaIsZero(d2, p1, p2)]))

\* the loop over the array, one updateParticle per element in order
RECURSIVE UpdateAll(_, _, _)
UpdateAll(h, ps, i) ==
    IF i > Len(ps) THEN h
    ELSE UpdateAll([h EXCEPT ![ps[i]] = updateParticle(@)], ps, i + 1)

\* particles.push of the records recs, each a new object
PushAll(recs) ==
    /\ nextId + Len(recs) - 1 <= MaxParticles
    /\ heap' = [id \in DOMAIN heap \cup (nextId..(nextId + Len(recs) - 1)) |->
                    IF id \in DOMAIN heap THEN heap[id]
                    ELSE recs[id - nextId + 1]]
    /\ particles' = particles \o [k \in 1..Len(recs) |-> nextId + k - 1]
    /\ nextId' = nextId + Len(recs)

sizeCanvas(w, h) ==
    IF containerW # 0 /\ containerH # 0 THEN <<containerW, containerH>>
    ELSE <<w, h>>

\* the number of passes of for (i = 0; i < quantity; i++), quantity being
\* area / Density
PassCount(area) == (area + Density - 1) \div Density

\* ------------------------------------------------------------------- init
\* the throttled-spawn interval createParticles(true) sets: its closure
\* variables counter and quantity (kept as the area, quantity * Density),
\* the re-initialization that started it, the particles it has pushed
NewCreateTimer(id, w, h, gen) ==
    [id |-> id, counter |-> 0, area |-> w * h, gen |-> gen, pushed |-> 0]

\* a pointer-down interval: its closure variables counter and quantity
NewMouseTimer(gen) ==
    [counter |-> 0, quantity |-> SpawnQuantity, gen |-> gen]

\* an init(elementId) that lacks the return of the context guard
ProceedsWithoutContext(outcome) == outcome # "noElement"

\* init(elementId) goes on to initParticleNetwork, bindUiActions and the
\* resize listener only past both guards, if (elem) and if (context)
Proceeds(outcome) == outcome = "running"

\* the state init(elementId) leaves, options.velocity being speed
Mounted(speed) ==
    /\ initState \in InitOutcomes
    /\ randomStream \in RandomStreams
    /\ velocity = speed
    /\ \E size \in ContainerSizes :
         /\ containerW = size[1]
         /\ containerH = size[2]
    /\ canvasW = IF initState = "noElement" THEN 0
                 ELSE sizeCanvas(DefaultCanvasWidth, DefaultCanvasHeight)[1]
    /\ canvasH = IF initState = "noElement" THEN 0
                 ELSE sizeCanvas(DefaultCanvasWidth, DefaultCanvasHeight)[2]
    /\ heap = <<>>
    /\ nextId = 1
    /\ particles = <<>>
    /\ interactionParticle = NoParticle
    /\ animationFrame = IF Proceeds(initState) THEN 1 ELSE 0
    /\ frameRequests = IF Proceeds(initState) THEN {1} ELSE {}
    /\ createIntervalId = IF Proceeds(initState) THEN 1 ELSE 0
    /\ createTimers = IF Proceeds(initState)
                      THEN {NewCreateTimer(1, canvasW, canvasH, 0)}
                      ELSE {}
    /\ mouseIsDown = FALSE
    /\ touchIsMoving = FALSE
    /\ mouseTimers = <<>>
    /\ tapTimers = <<>>
    /\ debounceTimers = {}
    /\ sinceResize = 0
    /\ frames = 0
    /\ drawn = <<>>
    /\ bounced = {}
    /\ generation = 0
    /\ cleared = {}
    /\ lastOp = Op("init")

\* options as the component ships them
Init == Mounted(VelocityHalves)

\* ------------------------------------------------- spawning and the loop
\* a createParticles that sets the new interval without clearing the old
ClearPreviousIntervalSkipped(timers, id) == timers

\* clearInterval(createIntervalId) before the new interval is set
ClearPreviousInterval(timers, id) == {t \in timers : t.id # id}

\* createParticles(isInitial) on a canvas of w x h, the array holding store
\* and the heap objs when it is called
createParticles(isInitial, w, h, store, objs) ==
    IF isInitial
    THEN /\ createTimers' =
                ClearPreviousInterval(createTimers, createIntervalId)
                    \cup {NewCreateTimer(createIntervalId + 1, w, h,
                                         generation + 1)}
         /\ createIntervalId' = createIntervalId + 1
         /\ particles' = store
         /\ heap' = objs
         /\ nextId' = nextId
    ELSE /\ nextId + PassCount(w * h) - 1 <= MaxParticles
         /\ heap' = [id \in DOMAIN objs
                             \cup (nextId..(nextId + PassCount(w * h) - 1)) |->
                         IF id \in DOMAIN objs THEN objs[id]
                         ELSE createParticle(Absent, Absent, Draw(id))]
         /\ particles' =
                store \o [k \in 1..PassCount(w * h) |-> nextId + k - 1]
         /\ nextId' = nextId + PassCount(w * h)
         /\ UNCHANGED <<createTimers, createIntervalId>>

\* an initParticleNetwork that spawns in the non-initial mode
initParticleNetworkSync(w, h, store, objs, pending) ==
    /\ createParticles(FALSE, w, h, store, objs)
    /\ animationFrame' = animationFrame + 1
    /\ frameRequests' = pending \cup {animationFrame + 1}

initParticleNetwork(w, h, store, objs, pending) ==
    /\ createParticles(TRUE, w, h, store, objs)
    /\ animationFrame' = animationFrame + 1
    /\ frameRequests' = pending \cup {animationFrame + 1}

\* one tick of the throttled-spawn interval t
CreateTick(t) ==
    /\ t \in createTimers
    /\ IF (t.counter + 1) * Density < t.area
       THEN /\ PushAll(<<createParticle(Absent, Absent, Draw(nextId))>>)
            /\ createTimers' = (createTimers \ {t})
                 \cup {[t EXCEPT !.counter = @ + 1, !.pushed = @ + 1]}
       ELSE /\ createTimers' =
                 {IF u = t THEN [u EXCEPT !.counter = @ + 1] ELSE u :
                      u \in {v \in createTimers : v.id # createIntervalId}}
            /\ UNCHANGED <<heap, particles, nextId>>
    /\ lastOp' = Op("createTick")
    /\ UNCHANGED <<config, container, canvas, loop, pointer, touch, resizing,
                   createIntervalId, interactionParticle>>

\* a frame callback that requests the next frame whatever the speed
ReschedulesAlways(speed) == TRUE

\* if (options.velocity !== 0) at the end of the frame callback
Reschedules(speed) == speed # 0

\* the frame callback of request handle, at most limit callbacks in a run
updateParticleNetwork(handle, limit) ==
    /\ handle \in frameRequests
    /\ frames < limit
    /\ heap' = UpdateAll(heap, particles, 1)
    /\ IF Reschedules(velocity)
       THEN /\ animationFrame' = animationFrame + 1
            /\ frameRequests' =
                   (frameRequests \ {handle}) \cup {animationFrame + 1}
       ELSE /\ animationFrame' = animationFrame
            /\ frameRequests' = frameRequests \ {handle}
    /\ frames' = frames + 1
    /\ drawn' = DrawConnections(heap, particles, 1, Len(particles), <<>>)
    /\ bounced' = {<<id, "x">> : id \in {i \in Range(particles) :
                                           OutsideX(heap[i])}}
                  \cup {<<id, "y">> : id \in {i \in Range(particles) :
                                                OutsideY(heap[i])}}
    /\ lastOp' = Op("frame")
    /\ UNCHANGED <<config, container, canvas, spawner, pointer, touch,
                   resizing, nextId, particles, interactionParticle>>

\* ----------------------------------------------------------------- resize
\* a listener that sets the new timeout without clearing the old
ClearTimeoutSkipped(timers) == timers

\* clearTimeout(timer): the timeout timer refers to, if it is pending
ClearTimeout(timers) == {t \in timers : ~t.latest}

\* setTimeout(..., delay) after the timeouts in timers: its burst began
\* when that of the pending timeout it follows began
NewDebounceTimer(timers) ==
    [left |-> DebounceDelay, latest |-> TRUE,
     age |-> IF \E t \in timers : t.latest
             THEN (CHOOSE t \in timers : t.latest).age
             ELSE 0]

\* the listener debounce(...) returns: clearTimeout(timer), then setTimeout
ResizeEvent(size) ==
    /\ initState = "running"
    /\ generation < MaxResizes
    /\ containerW' = size[1]
    /\ containerH' = size[2]
    /\ debounceTimers' =
           {[t EXCEPT !.latest = FALSE] : t \in ClearTimeout(debounceTimers)}
               \cup {NewDebounceTimer(debounceTimers)}
    /\ sinceResize' = 0
    /\ lastOp' = Op("resize")
    /\ UNCHANGED <<config, canvas, objects, loop, spawner, pointer, touch,
                   generation, cleared, interactionParticle>>

\* a resize body that leaves the pending frame request in place
CancelAnimationFrameSkipped(pending, handle) == pending

\* cancelAnimationFrame(animationFrame)
CancelAnimationFrame(pending, handle) == pending \ {handle}

\* a resize body that leaves the array as it is
ClearStoreSkipped(ps) == ps

\* particles.length = 0
ClearStore(ps) == <<>>

\* the timeout t fires: the debounced body
ResizeTimeout(t) ==
    /\ t \in debounceTimers
    /\ debounceTimers' = debounceTimers \ {t}
    /\ canvasW' = sizeCanvas(canvasW, canvasH)[1]
    /\ canvasH' = sizeCanvas(canvasW, canvasH)[2]
    /\ initParticleNetwork(canvasW', canvasH', ClearStore(particles),
                           Reachable(heap, ClearStore(particles),
                                     interactionParticle),
                           CancelAnimationFrame(frameRequests, animationFrame))
    /\ cleared' = cleared \cup Range(particles)
    /\ generation' = generation + 1
    /\ lastOp' = OpAt("resizeHandler",
                      <<Cardinality(createTimers), t.age>>)
    /\ UNCHANGED <<config, container, pointer, touch, frames, drawn,
                   bounced, sinceResize, interactionParticle>>

\* the body runs whenever a timeout is pending: time is left out
ResizeHandler == \E t \in debounceTimers : ResizeTimeout(t)

\* the body runs when its timeout is due
ResizeHandlerDue == \E t \in debounceTimers : t.left = 0 /\ ResizeTimeout(t)

\* SpawnPeriod of time passes, unless a timeout is due
Elapse ==
    /\ debounceTimers # {}
    /\ \A t \in debounceTimers : t.left > 0
    /\ debounceTimers' =
           {[t EXCEPT !.left = IF @ > SpawnPeriod THEN @ - SpawnPeriod ELSE 0,
                      !.age = Min(MaxBurstTime, @ + SpawnPeriod)] :
                t \in debounceTimers}
    /\ sinceResize' = sinceResize + SpawnPeriod
    /\ lastOp' = Op("elapse")
    /\ UNCHANGED <<config, container, canvas, objects, loop, spawner, pointer,
                   touch, generation, cleared, interactionParticle>>

\* ------------------------------------------------------------ interaction
\* createInteractionParticle, then the two assignments of the move handlers
MoveInteraction(pt) ==
    IF interactionParticle = NoParticle
    THEN /\ PushAll(<<[createParticle(Absent, Absent, Draw(nextId)) EXCEPT
                            !.vx = 0, !.vy = 0,
                            !.x = pt[1] * PosUnit, !.y = pt[2] * PosUnit]>>)
         /\ interactionParticle' = nextId
    ELSE /\ heap' = [heap EXCEPT ![interactionParticle] =
                         [@ EXCEPT !.x = pt[1] * PosUnit,
                                   !.y = pt[2] * PosUnit]]
         /\ UNCHANGED <<particles, nextId, interactionParticle>>

\* particles.indexOf(interactionParticle), -1 when it is not an element
IndexOf(ps, id) ==
    IF id \in Range(ps)
    THEN (CHOOSE i \in 1..Len(ps) :
              ps[i] = id /\ \A j \in 1..(i - 1) : ps[j] # id) - 1
    ELSE -1

\* particles.splice(index, 2)
SpliceTwo(ps, index) ==
    [k \in 1..(Len(ps) - Min(2, Len(ps) - index)) |->
        IF k <= index THEN ps[k] ELSE ps[k + 2]]

\* particles.splice(index, 1), index counted from 0
Splice(ps, index) ==
    [k \in 1..(Len(ps) - 1) |-> IF k <= index THEN ps[k] ELSE ps[k + 1]]

removeInteractionParticle ==
    IF interactionParticle # NoParticle
          /\ IndexOf(particles, interactionParticle) > -1
    THEN /\ interactionParticle' = NoParticle
         /\ particles' =
                Splice(particles, IndexOf(particles, interactionParticle))
         /\ heap' = Reachable(heap, particles', NoParticle)
    ELSE UNCHANGED <<interactionParticle, particles, heap>>

MouseMove(pt) ==
    /\ initState = "running"
    /\ MoveInteraction(pt)
    /\ lastOp' = OpAt("mousemove", pt)
    /\ UNCHANGED <<config, container, canvas, loop, spawner, pointer, touch,
                   resizing>>

TouchMove(pt) ==
    /\ initState = "running"
    /\ touchIsMoving' = TRUE
    /\ MoveInteraction(pt)
    /\ tapTimers' = [i \in 1..Len(tapTimers) |->
                         [tapTimers[i] EXCEPT !.moved = TRUE]]
    /\ lastOp' = OpAt("touchmove", pt)
    /\ UNCHANGED <<config, container, canvas, loop, spawner, pointer,
                   resizing>>

\* the mousedown listener, while fewer than limit intervals are alive
MouseDownUpTo(limit) ==
    /\ initState = "running"
    /\ Len(mouseTimers) < limit
    /\ mouseIsDown' = TRUE
    /\ mouseTimers' = Append(mouseTimers, NewMouseTimer(generation))
    /\ lastOp' = Op("mousedown")
    /\ UNCHANGED <<config, container, canvas, objects, loop, spawner, touch,
                   resizing, interactionParticle>>

MouseDown == MouseDownUpTo(MaxMouseTimers)

\* a tick that tests counter === 0 where the code tests counter === 1
TickSpawnCountOffByOne(t) ==
    IF interactionParticle # NoParticle
    THEN (IF t.counter = 0 THEN 1 ELSE t.quantity)
    ELSE 0

\* the particles one tick of a pointer-down interval pushes
TickSpawnCount(t) ==
    IF interactionParticle # NoParticle
    THEN (IF t.counter = 1 THEN 1 ELSE t.quantity)
    ELSE 0

\* a tick whose else branch leaves the interval running
CancelMouseTimerSkipped(timers, i) == timers

\* clearInterval(intervalId) of the interval at position i
CancelMouseTimer(timers, i) == Splice(timers, i - 1)

\* one tick of the pointer-down interval at position i of the browser's list
MouseDownTick(i) ==
    /\ i \in 1..Len(mouseTimers)
    /\ LET t == mouseTimers[i]
       IN IF mouseIsDown
          THEN /\ t.counter < MaxTicks
               /\ PushAll([k \in 1..TickSpawnCount(t) |->
                      createParticle(Given(heap[interactionParticle].x),
                                     Given(heap[interactionParticle].y),
                                     Draw(nextId + k - 1))])
               /\ mouseTimers' = [mouseTimers EXCEPT ![i] =
                      [@ EXCEPT !.counter = @ + 1,
                                !.quantity = IF t.counter = 1 THEN 1 ELSE @]]
          ELSE /\ mouseTimers' = CancelMouseTimer(mouseTimers, i)
               /\ UNCHANGED <<heap, particles, nextId>>
    /\ lastOp' = Op("mousedownTick")
    /\ UNCHANGED <<config, container, canvas, loop, spawner, touch, resizing,
                   mouseIsDown, interactionParticle>>

\* the timeout a touch-start sets: the event its closure holds
NewTapTimer(pt) == [x |-> pt[1], y |-> pt[2], moved |-> FALSE]

TouchStart(pt) ==
    /\ initState = "running"
    /\ Len(tapTimers) < MaxTaps
    /\ tapTimers' = Append(tapTimers, NewTapTimer(pt))
    /\ lastOp' = OpAt("touchstart", pt)
    /\ UNCHANGED <<config, container, canvas, objects, loop, spawner, pointer,
                   resizing, touchIsMoving, interactionParticle>>

\* the particles the timeout of a touch-start pushes
TapSpawnCount == IF ~touchIsMoving THEN SpawnQuantity ELSE 0

\* the timeout of the touch-start at position i fires
TapTimeout(i) ==
    /\ i \in 1..Len(tapTimers)
    /\ PushAll([k \in 1..TapSpawnCount |->
           createParticle(Given(tapTimers[i].x * PosUnit),
                          Given(tapTimers[i].y * PosUnit),
                          Draw(nextId + k - 1))])
    /\ tapTimers' = Splice(tapTimers, i - 1)
    /\ lastOp' = OpAt("tapTimeout", <<i>>)
    /\ UNCHANGED <<config, container, canvas, loop, spawner, pointer,
                   resizing, touchIsMoving, interactionParticle>>

MouseUp ==
    /\ initState = "running"
    /\ mouseIsDown' = FALSE
    /\ lastOp' = Op("mouseup")
    /\ UNCHANGED <<config, container, canvas, objects, loop, spawner, touch,
                   resizing, mouseTimers, interactionParticle>>

MouseOut ==
    /\ initState = "running"
    /\ removeInteractionParticle
    /\ lastOp' = Op("mouseout")
    /\ UNCHANGED <<config, container, canvas, loop, spawner, pointer, touch,
                   resizing, nextId>>

TouchEnd ==
    /\ initState = "running"
    /\ touchIsMoving' = FALSE
    /\ removeInteractionParticle
    /\ lastOp' = Op("touchend")
    /\ UNCHANGED <<config, container, canvas, loop, spawner, pointer,
                   resizing, nextId, tapTimers>>

\* --------------------------------------------------------- specifications
Frame == \E handle \in frameRequests : updateParticleNetwork(handle, MaxFrames)

\* The whole system: every handler and callback.
Next ==
    \/ \E t \in createTimers : CreateTick(t)
    \/ Frame
    \/ \E size \in ContainerSizes : ResizeEvent(size)
    \/ ResizeHandler
    \/ \E pt \in EventPoints : MouseMove(pt)
    \/ \E pt \in EventPoints : TouchMove(pt)
    \/ MouseDown
    \/ \E i \in 1..Len(mouseTimers) : MouseDownTick(i)
    \/ \E pt \in EventPoints : TouchStart(pt)
    \/ \E i \in 1..Len(tapTimers) : TapTimeout(i)
    \/ MouseUp
    \/ MouseOut
    \/ TouchEnd

Spec == Init /\ [][Next]_vars

\* The interaction particle: a user who moves the pointer or a finger over
\* the canvas and off it while the window is resized and the population
\* spawns.
InteractionNext ==
    \/ \E t \in createTimers : CreateTick(t)
    \/ \E size \in ContainerSizes : ResizeEvent(size)
    \/ ResizeHandler
    \/ \E pt \in EventPoints : MouseMove(pt)
    \/ \E pt \in EventPoints : TouchMove(pt)
    \/ MouseOut
    \/ TouchEnd

InteractionSpec == Init /\ [][InteractionNext]_vars

\* Spawning: the throttled population, the pointer-down interval of a user
\* who holds the button with the pointer at HoldPoints, and resizes.
SpawnNext ==
    \/ \E t \in createTimers : CreateTick(t)
    \/ \E size \in ContainerSizes : ResizeEvent(size)
    \/ ResizeHandler
    \/ \E pt \in HoldPoints : MouseMove(pt)
    \/ MouseDown
    \/ \E i \in 1..Len(mouseTimers) : MouseDownTick(i)
    \/ MouseUp

SpawnSpec == Init /\ [][SpawnNext]_vars

\* The pointer: moves to HoldPoints, button presses and releases, leaving
\* the canvas, and resizes.
PointerNext ==
    \/ \E size \in ContainerSizes : ResizeEvent(size)
    \/ ResizeHandler
    \/ \E pt \in HoldPoints : MouseMove(pt)
    \/ MouseDown
    \/ \E i \in 1..Len(mouseTimers) : MouseDownTick(i)
    \/ MouseUp
    \/ MouseOut

PointerSpec == Init /\ [][PointerNext]_vars

\* The pointer on a component mounted in a container of 200 x 150 that
\* keeps its size, with one stream of random values
PointerFairInit ==
    /\ Init
    /\ initState = "running"
    /\ containerW = 200
    /\ containerH = 150
    /\ randomStream = <<SampleLow, SampleHigh>>

PointerFairNext ==
    \/ ResizeEvent(<<200, 150>>)
    \/ ResizeHandler
    \/ \E pt \in HoldPoints : MouseMove(pt)
    \/ MouseDown
    \/ \E i \in 1..Len(mouseTimers) : MouseDownTick(i)
    \/ MouseUp
    \/ MouseOut

\* setInterval fires its callback again and again until it is cleared
PointerFairSpec ==
    /\ PointerFairInit
    /\ [][PointerFairNext]_vars
    /\ WF_vars(\E i \in 1..Len(mouseTimers) : MouseDownTick(i))

\* Mounting: init(elementId) with each of its outcomes, then the loop, the
\* throttled spawn, resizes, a pointer that moves and a finger that taps.
MountInit == Init /\ randomStream = <<SampleLow, SampleHigh>>

MountNext ==
    \/ \E t \in createTimers : CreateTick(t)
    \/ Frame
    \/ \E size \in ContainerSizes : ResizeEvent(size)
    \/ ResizeHandler
    \/ \E pt \in HoldPoints : MouseMove(pt)
    \/ \E pt \in HoldPoints : TouchStart(pt)
    \/ \E i \in 1..Len(tapTimers) : TapTimeout(i)

MountSpec == MountInit /\ [][MountNext]_vars

\* Motion: the loop moves the particles the throttled spawn and taps at
\* FarPoints push.
BounceNext ==
    \/ \E t \in createTimers : CreateTick(t)
    \/ Frame
    \/ \E pt \in FarPoints : TouchStart(pt)
    \/ \E i \in 1..Len(tapTimers) : TapTimeout(i)

BounceSpec == MountInit /\ [][BounceNext]_vars

\* Rendering: the loop draws the interaction particle of a pointer at
\* HoldPoints and the particles of taps at LinePoints.
LineFrame ==
    \E handle \in frameRequests : updateParticleNetwork(handle, MaxLineFrames)

\* a touch during the first frames, so that its particles have the frames
\* left to fade in and to drift
LineTap(pt) ==
    /\ frames < MaxFrames
    /\ TouchStart(pt)

LineNext ==
    \/ LineFrame
    \/ \E pt \in HoldPoints : MouseMove(pt)
    \/ \E pt \in LinePoints : LineTap(pt)
    \/ \E i \in 1..Len(tapTimers) : TapTimeout(i)

LineSpec == MountInit /\ [][LineNext]_vars

\* The Store: everything that pushes to the array or removes from it, on a
\* component mounted in a container of 200 x 150 that keeps its size.
StoreInit ==
    /\ MountInit
    /\ containerW = 200
    /\ containerH = 150

StoreNext ==
    \/ \E t \in createTimers : CreateTick(t)
    \/ Frame
    \/ ResizeEvent(<<200, 150>>)
    \/ ResizeHandler
    \/ \E pt \in HoldPoints : MouseMove(pt)
    \/ MouseDown
    \/ \E i \in 1..Len(mouseTimers) : MouseDownTick(i)
    \/ \E pt \in FarPoints : TouchStart(pt)
    \/ \E i \in 1..Len(tapTimers) : TapTimeout(i)
    \/ MouseOut

StoreSpec == StoreInit /\ [][StoreNext]_vars

\* The loop: frame callbacks, the throttled spawn and resizes, for each
\* speed of Speeds.
LoopInit == \E speed \in Speeds : Mounted(speed)

LoopNext ==
    \/ \E t \in createTimers : CreateTick(t)
    \/ Frame
    \/ \E size \in ContainerSizes : ResizeEvent(size)
    \/ ResizeHandler

LoopSpec == LoopInit /\ [][LoopNext]_vars

\* the browser runs the callback of a pending frame request
LoopFairSpec == LoopSpec /\ WF_vars(Frame)

\* Resizing in time: resize events, the passing of time and the debounced
\* body when it is due, while the population spawns.
DebounceNext ==
    \/ \E size \in ContainerSizes : ResizeEvent(size)
    \/ Elapse
    \/ ResizeHandlerDue
    \/ \E t \in createTimers : CreateTick(t)

DebounceSpec == Init /\ [][DebounceNext]_vars

\* Touch: taps and drags of a finger on the canvas.
\* The mouse button alone: presses, releases and the ticks of the intervals
\* the presses start, with the pointer on the canvas.
ButtonNext ==
    \/ \E pt \in HoldPoints : MouseMove(pt)
    \/ MouseDownUpTo(MaxHeldTimers)
    \/ \E i \in 1..Len(mouseTimers) : MouseDownTick(i)
    \/ MouseUp

ButtonSpec == PointerFairInit /\ [][ButtonNext]_vars

TapNext ==
    \/ \E pt \in EventPoints : TouchStart(pt)
    \/ \E i \in 1..Len(tapTimers) : TapTimeout(i)
    \/ \E pt \in EventPoints : TouchMove(pt)
    \/ TouchEnd

TapSpec == Init /\ [][TapNext]_vars

\* The fade-in: the population spawns and the loop runs, nothing else
\* happens.
FadeFrame ==
    \E handle \in frameRequests : updateParticleNetwork(handle, MaxFadeFrames)

FadeNext ==
    \/ \E t \in createTimers : CreateTick(t)
    \/ FadeFrame

\* the component mounted in a container of 200 x 150
FadeInit ==
    /\ Init
    /\ initState = "running"
    /\ containerW = 200
    /\ containerH = 150

FadeSpec == FadeInit /\ [][FadeNext]_vars

\* ----------------------------------------------------------------- claims
\* how often the object id is an element of the array ps
Occurrences(ps, id) == Cardinality({i \in 1..Len(ps) : ps[i] = id})

\* the array ps without the object id, the other elements in order
Without(ps, id) == SelectSeq(ps, LAMBDA e : e # id)

\* C1: after every pointer-move or touch-move the object interactionParticle
\* refers to is in the Store exactly once, has velocity (0,0) and sits at the
\* coordinates of the event.
C1_MoveKeepsOneInteractionParticle ==
    lastOp.op \in {"mousemove", "touchmove"} =>
        /\ interactionParticle # NoParticle
        /\ Occurrences(particles, interactionParticle) = 1
        /\ heap[interactionParticle].vx = 0
        /\ heap[interactionParticle].vy = 0
        /\ heap[interactionParticle].x = lastOp.args[1] * PosUnit
        /\ heap[interactionParticle].y = lastOp.args[2] * PosUnit

\* C2: a pointer-leave or touch-end handled while the reference is set clears
\* the reference and removes exactly that object from the Store, the others
\* keeping their order.
C2_LeaveRemovesInteractionParticle ==
    [][(lastOp'.op \in {"mouseout", "touchend"}
            /\ interactionParticle # NoParticle) =>
          /\ interactionParticle' = NoParticle
          /\ Occurrences(particles', interactionParticle) = 0
          /\ Len(particles') = Len(particles) - 1
          /\ particles' = Without(particles, interactionParticle)]_vars

\* C3: a tick of the throttled-spawn interval pushes exactly one particle as
\* long as the interval has pushed fewer than the target quantity
\* (area / Density), and cancels the interval, pushing nothing, once it has
\* pushed that many.
C3_ThrottledSpawnReachesTarget ==
    [][\A t \in createTimers :
          (lastOp'.op = "createTick" /\ t \notin createTimers') =>
              IF t.pushed * Density < t.area
              THEN /\ Len(particles') = Len(particles) + 1
                   /\ \E u \in createTimers' : u.id = t.id
              ELSE /\ particles' = particles
                   /\ \A u \in createTimers' : u.id # t.id]_vars

\* C4: the resize body empties the Store, no object a resize removed is ever
\* in the Store again, and the throttled spawn started by the body takes its
\* target quantity from the surface as re-measured (the container's size
\* when it reports one).
C4_ResizeLeavesNoResidue ==
    /\ Range(particles) \cap cleared = {}
    /\ \A t \in createTimers : t.area = canvasW * canvasH
    /\ lastOp.op = "resizeHandler" =>
          /\ particles = <<>>
          /\ (containerW # 0 /\ containerH # 0) =>
                (canvasW = containerW /\ canvasH = containerH)

\* a resize has emptied a Store that held particles, the surface took the
\* container's size, and the new population has begun to spawn
C4_Witness ==
    /\ generation > 0
    /\ cleared # {}
    /\ canvasW = containerW
    /\ canvasH = containerH
    /\ particles # <<>>
    /\ lastOp.op = "createTick"

\* the pointer-down intervals whose callback ran in this step
TickedMouseTimers ==
    {i \in 1..Len(mouseTimers) :
        /\ Len(mouseTimers') = Len(mouseTimers)
        /\ mouseTimers'[i] # mouseTimers[i]}

\* C5 as claimed: no tick of an interval started before a resize, throttled
\* or pointer-down, pushes a particle once the resize body has run.
C5_NoOldTimerPushes ==
    [][Len(particles') > Len(particles) =>
          /\ lastOp'.op = "createTick" =>
                \A t \in createTimers \ createTimers' : t.gen = generation
          /\ lastOp'.op = "mousedownTick" =>
                \A i \in TickedMouseTimers :
                    mouseTimers[i].gen = generation]_vars

\* C5 as amended: the resize body cancels the throttled-spawn interval that
\* was pending (every throttled-spawn interval the browser holds was started
\* by the latest initialization, so none older can tick); it does not
\* cancel a pointer-down interval.
C5_ResizeCancelsThrottledSpawn ==
    \A t \in createTimers : t.gen = generation /\ t.id = createIntervalId

\* the resize body has run while a throttled-spawn interval and a
\* pointer-down interval were pending; the pointer-down interval is still
\* pending, the button down and interactionParticle set, so that its next
\* tick pushes
C5_Witness ==
    /\ lastOp.op = "resizeHandler"
    /\ lastOp.args[1] = 1
    /\ \E i \in 1..Len(mouseTimers) : mouseTimers[i].gen < generation
    /\ mouseIsDown
    /\ interactionParticle # NoParticle

\* C6 as claimed: when the resize body completes the Store holds the full
\* target quantity, pushed in one pass, and no throttled-spawn interval was
\* started.
C6_ResizeSpawnsSynchronously ==
    lastOp.op = "resizeHandler" =>
        /\ Len(particles) = PassCount(canvasW * canvasH)
        /\ createTimers = {}

\* C6 as amended: the resize body re-runs the initial, throttled spawn: when
\* it completes the Store is empty and exactly one throttled-spawn interval
\* is pending, new, with the target quantity of the new surface.
C6_ResizeRestartsThrottledSpawn ==
    lastOp.op = "resizeHandler" =>
        /\ particles = <<>>
        /\ createTimers =
               {NewCreateTimer(createIntervalId, canvasW, canvasH,
                               generation)}

\* the resize body has completed on a surface whose target quantity is not 0
C6_Witness ==
    /\ lastOp.op = "resizeHandler"
    /\ PassCount(canvasW * canvasH) > 0

\* C7: every particle a pointer-down tick pushes lies exactly at the
\* interaction particle's coordinates, a coordinate of 0 included.
C7_SpawnAtInteractionParticle ==
    [][lastOp'.op = "mousedownTick" =>
          \A id \in Range(particles') \ Range(particles) :
              /\ heap'[id].x = heap[interactionParticle].x
              /\ heap'[id].y = heap[interactionParticle].y]_vars

\* C8: the opacity of every particle is at most 1 (and, a count of 2^-59, at
\* least 0).
C8_OpacityWithinUnitInterval ==
    \A id \in DOMAIN heap :
        /\ ~FloatLess(heap[id].opacity, OpacityZero)
        /\ ~FloatLess(OpacityOne, heap[id].opacity)

\* C9 as claimed: while the button is down a tick of a pointer-down interval
\* pushes SpawnQuantity particles when it is the interval's first and one
\* particle when it is a later one, whatever interactionParticle is.
C9_TickPushesQuantity ==
    [][(lastOp'.op = "mousedownTick" /\ mouseIsDown) =>
          \A i \in TickedMouseTimers :
              Len(particles') - Len(particles) =
                  IF mouseTimers[i].counter = 0 THEN SpawnQuantity ELSE 1]_vars

\* C9 as amended: it pushes that many when interactionParticle is set, in
\* the Store or not, and nothing when interactionParticle is undefined.
C9_TickPushesQuantityAtInteractionParticle ==
    [][(lastOp'.op = "mousedownTick" /\ mouseIsDown) =>
          \A i \in TickedMouseTimers :
              Len(particles') - Len(particles) =
                  IF interactionParticle = NoParticle THEN 0
                  ELSE IF mouseTimers[i].counter = 0 THEN SpawnQuantity
                  ELSE 1]_vars

\* a second tick has pushed its one particle at an interaction particle
\* that a resize removed from the Store
C9_Witness ==
    /\ lastOp.op = "mousedownTick"
    /\ mouseIsDown
    /\ interactionParticle # NoParticle
    /\ interactionParticle \notin Range(particles)
    /\ \E i \in 1..Len(mouseTimers) : mouseTimers[i].counter = 2
    /\ Len(particles) = SpawnQuantity + 1

\* C10: with the button up a tick of a pointer-down interval pushes nothing
\* and cancels its interval, and from any state with the button up the
\* system reaches one where no pointer-down interval is pending or the
\* button is down again.
C10_PointerUpStopsSpawning ==
    /\ [][(lastOp'.op = "mousedownTick" /\ ~mouseIsDown) =>
             /\ particles' = particles
             /\ Len(mouseTimers') = Len(mouseTimers) - 1]_vars
    /\ (~mouseIsDown) ~> (mouseIsDown \/ mouseTimers = <<>>)

\* after a pointer-up the pending interval has ticked: it is cancelled, and
\* the Store holds what it pushed while the button was down
C10_Witness ==
    /\ lastOp.op = "mousedownTick"
    /\ ~mouseIsDown
    /\ mouseTimers = <<>>
    /\ Len(particles) > SpawnQuantity

\* C11: when the timeout of a touch-start fires it pushes SpawnQuantity
\* particles if no touch-move was handled since that touch-start, and nothing
\* if one was, a touch-end in between or not.
C11_TapSpawnsUnlessMoved ==
    [][lastOp'.op = "tapTimeout" =>
          Len(particles') - Len(particles) =
              IF tapTimers[lastOp'.args[1]].moved THEN 0
              ELSE SpawnQuantity]_vars

\* C12: when init(elementId) finds no element or gets no context, no frame
\* is requested, no interval or timeout is pending, the Store is empty, and
\* no handler ever runs: the state init left never changes.
C12_FailedInitStaysInert ==
    /\ [](initState # "running" =>
             /\ frameRequests = {}
             /\ createTimers = {}
             /\ mouseTimers = <<>>
             /\ tapTimers = <<>>
             /\ debounceTimers = {}
             /\ particles = <<>>
             /\ interactionParticle = NoParticle
             /\ lastOp = Op("init"))
    /\ [][initState = "running"]_vars

\* init sized the canvas to its container and then got no context
C12_Witness ==
    /\ initState = "noContext"
    /\ canvasW = containerW
    /\ canvasH = containerH
    /\ containerW # 0
    /\ frameRequests = {}

\* C13: a frame update reverses the x-velocity of a particle in the Store
\* that is beyond canvas.width + 100 or below -100, and the frame update
\* after one that reversed a non-zero x-velocity does not reverse it again;
\* likewise for y and canvas.height.
C13_BounceDoesNotRepeat ==
    [][lastOp'.op = "frame" =>
          \A id \in Range(particles) :
              /\ OutsideX(heap[id]) => heap'[id].vx = -heap[id].vx
              /\ OutsideY(heap[id]) => heap'[id].vy = -heap[id].vy
              /\ (<<id, "x">> \in bounced /\ heap[id].vx # 0) =>
                     heap'[id].vx = heap[id].vx
              /\ (<<id, "y">> \in bounced /\ heap[id].vy # 0) =>
                     heap'[id].vy = heap[id].vy]_vars

\* the positions i < j of the array before the frame whose elements the
\* entry e of drawn connects
DrawnPositions(e) ==
    {pr \in (1..Len(particles)) \X (1..Len(particles)) :
        pr[1] < pr[2] /\ particles[pr[1]] = e.p1 /\ particles[pr[2]] = e.p2}

\* C14: a frame strokes one line for every pair of positions i < j of the
\* Store whose particles are at most NetLineDistance apart, none for a pair
\* further apart, no pair twice, and the line of a pair exactly
\* NetLineDistance apart with alpha 0.
C14_LinesExactlyWithinDistance ==
    [][lastOp'.op = "frame" =>
          /\ \A k \in 1..Len(drawn') :
                /\ DrawnPositions(drawn'[k]) # {}
                /\ drawn'[k].dist2 =
                       SquaredDistance(heap[drawn'[k].p1], heap[drawn'[k].p2])
                /\ drawn'[k].dist2 <= (NetLineDistance * PosUnit)
                                          * (NetLineDistance * PosUnit)
                /\ drawn'[k].dist2 = (NetLineDistance * PosUnit)
                                         * (NetLineDistance * PosUnit)
                      => drawn'[k].alphaZero
                /\ \A m \in 1..Len(drawn') :
                      (drawn'[m].p1 = drawn'[k].p1
                          /\ drawn'[m].p2 = drawn'[k].p2) => m = k
          /\ \A i \in 1..Len(particles) : \A j \in (i + 1)..Len(particles) :
                SquaredDistance(heap[particles[i]], heap[particles[j]])
                      <= (NetLineDistance * PosUnit) * (NetLineDistance * PosUnit)
                  => \E k \in 1..Len(drawn') :
                        /\ drawn'[k].p1 = particles[i]
                        /\ drawn'[k].p2 = particles[j]]_vars

\* a frame has stroked the line of a pair exactly NetLineDistance apart,
\* both particles faded in, and has left out another pair of the Store
C14_Witness ==
    /\ lastOp.op = "frame"
    /\ \E k \in 1..Len(drawn) :
          /\ drawn[k].dist2 = (NetLineDistance * PosUnit)
                                  * (NetLineDistance * PosUnit)
          /\ drawn[k].alphaZero
          /\ heap[drawn[k].p1].opacity # OpacityStep
          /\ heap[drawn[k].p2].opacity # OpacityStep
    /\ 2 * Len(drawn) < Len(particles) * (Len(particles) - 1)

\* C15: a step that is not the resize body and not a pointer-leave or
\* touch-end keeps every element of the Store in place (it can only push);
\* the resize body leaves the Store empty; a pointer-leave or touch-end
\* removes at most the one interaction particle.
C15_StoreOnlyGrows ==
    [][/\ lastOp'.op \notin {"resizeHandler", "mouseout", "touchend"} =>
             /\ Len(particles') >= Len(particles)
             /\ SubSeq(particles', 1, Len(particles)) = particles
       /\ lastOp'.op = "resizeHandler" => particles' = <<>>
       /\ lastOp'.op \in {"mouseout", "touchend"} =>
             \/ particles' = particles
             \/ /\ Len(particles') = Len(particles) - 1
                /\ particles' = Without(particles, interactionParticle)]_vars

\* after a resize that emptied a Store, a pointer-leave has removed the
\* interaction particle from among other particles: every object created
\* is in the Store, was removed by the resize, or is that one
C15_Witness ==
    /\ lastOp.op = "mouseout"
    /\ interactionParticle = NoParticle
    /\ cleared # {}
    /\ particles # <<>>
    /\ nextId - 1 = Len(particles) + Cardinality(cleared) + 1

\* C16: every particle has radius 2 or 3 pixels, a colour of the palette
\* and velocity components of at most options.velocity / 2; while it is in
\* the Store no step changes its radius or colour, and a step changes a
\* velocity component only by reversing it, in a frame update that finds
\* the particle beyond the margin.
C16_ShapeAndSpeedFixed ==
    /\ [](\A id \in DOMAIN heap :
             /\ heap[id].radius \in {2 * PosUnit, 3 * PosUnit}
             /\ heap[id].particleColor \in Range(ParticleColors)
             /\ 4 * Abs(heap[id].vx) <= velocity * PosUnit
             /\ 4 * Abs(heap[id].vy) <= velocity * PosUnit)
    /\ [][\A id \in Range(particles) \cap Range(particles') :
             /\ heap'[id].radius = heap[id].radius
             /\ heap'[id].particleColor = heap[id].particleColor
             /\ heap'[id].vx # heap[id].vx =>
                   /\ heap'[id].vx = -heap[id].vx
                   /\ lastOp'.op = "frame"
                   /\ OutsideX(heap[id])
             /\ heap'[id].vy # heap[id].vy =>
                   /\ heap'[id].vy = -heap[id].vy
                   /\ lastOp'.op = "frame"
                   /\ OutsideY(heap[id])]_vars

\* a frame has reversed the velocity of a particle beyond the margin while
\* the Store also holds an interaction particle and a particle inside
C16_Witness ==
    /\ lastOp.op = "frame"
    /\ \E id \in Range(particles) :
          <<id, "x">> \in bounced /\ heap[id].vx # 0
    /\ interactionParticle \in Range(particles)
    /\ \E id \in Range(particles) :
          /\ id # interactionParticle
          /\ <<id, "x">> \notin bounced
          /\ heap[id].vx # 0

\* C17: a frame callback leaves exactly one frame request pending, a new
\* one, when options.velocity is not 0, and none when it is 0; with
\* velocity 0 no more than one frame callback runs per initialization, and
\* the frame an initialization requested does run, after which none is
\* pending.
C17_LoopReschedulesUnlessStill ==
    /\ [][lastOp'.op = "frame" =>
             IF velocity # 0
             THEN /\ frameRequests' = {animationFrame'}
                  /\ animationFrame' \notin frameRequests
             ELSE frameRequests' = {}]_vars
    /\ [](velocity = 0 => frames <= generation + 1)
    /\ (velocity = 0 /\ frameRequests # {}) ~> (frameRequests = {})

\* with velocity 0 the one frame of the initialization and the one frame of
\* a re-initialization have run, and no frame is pending
C17_Witness ==
    /\ velocity = 0
    /\ lastOp.op = "frame"
    /\ generation = 1
    /\ frames = 2
    /\ frameRequests = {}

\* C18: the debounced body runs only when DebounceDelay has passed since
\* the last resize event, for the timeout that event set, and once: when it
\* has run no timeout of the listener is pending; at no time is more than
\* one pending.
C18_ResizeDebounced ==
    /\ [][lastOp'.op = "resizeHandler" =>
             /\ sinceResize = DebounceDelay
             /\ \E t \in debounceTimers : t.latest /\ t.left = 0
             /\ debounceTimers' = {}]_vars
    /\ [](Cardinality(debounceTimers) <= 1)

\* the body has run once, DebounceDelay after the last event of a burst
\* that began earlier than that
C18_Witness ==
    /\ lastOp.op = "resizeHandler"
    /\ lastOp.args[2] > DebounceDelay
    /\ sinceResize = DebounceDelay
    /\ generation = 1
    /\ debounceTimers = {}

\* C19: in every reachable state at most one animation frame request is
\* pending and at most one throttled-spawn interval is active, however the
\* frame callbacks, the resize bodies and the interval ticks interleave.
C19_OneLoopOneSpawner ==
    /\ Cardinality(frameRequests) <= 1
    /\ Cardinality(createTimers) <= 1

\* a resize body has just run while the loop was animating and the
\* throttled-spawn interval was still active: one of each remains
C19_Witness ==
    /\ lastOp.op = "resizeHandler"
    /\ lastOp.args[1] = 1
    /\ velocity # 0
    /\ frames > 0
    /\ Cardinality(frameRequests) = 1
    /\ Cardinality(createTimers) = 1

\* C20: in every reachable state at most one pointer-down spawn interval is
\* active, for any sequence of presses and releases of the button, so that
\* a held button appends at most one particle per period after the first
\* tick.
C20_OnePointerDownInterval == Len(mouseTimers) <= 1

====
